---- MODULE Spec2Model ----
(***************************************************************************)
(* Model of modelo_ecológico_empirico.py: the tipping-point step function, *)
(* the scenario simulator with its regime latch, the pessimistic forcing   *)
(* builder and the critical-year analysis.                                 *)
(*                                                                         *)
(* float64 values are modelled as fixed-point integers with six decimal    *)
(* digits (value * 10^6, rounded to nearest).  Multiplication and division *)
(* are carried out in pieces so that no intermediate exceeds 32 bits.      *)
(***************************************************************************)
EXTENDS Integers, Sequences, FiniteSets, TLC

\* ------------------------------------------------------------ fixed point
Scale == 10^6
Kilo == 10^3

Max2(p, q) == IF p >= q THEN p ELSE q
Min2(p, q) == IF p <= q THEN p ELSE q

\* p * q on floats: round(p*q / Scale), computed from the base-1000 halves.
MulFix(p, q) ==
    LET ph == p \div Kilo
        pl == p % Kilo
        qh == q \div Kilo
        ql == q % Kilo
        m  == ph * ql + pl * qh
    IN  ph * qh + ((m + ((pl * ql + 500 * Kilo) \div Kilo)) \div Kilo)

\* p / q on floats, for p >= 0 and q > 0: round(p*Scale / q) by long
\* division in base 100.
DivFix(p, q) ==
    LET q0 == p \div q
        r0 == p % q
        q1 == (r0 * 100) \div q
        r1 == (r0 * 100) % q
        q2 == (r1 * 100) \div q
        r2 == (r1 * 100) % q
        q3 == (r2 * 100 + (q \div 2)) \div q
    IN  ((q0 * 100 + q1) * 100 + q2) * 100 + q3

\* ------------------------------------------------------ program constants
a0 == 147800
D_ref == 2100
b == 174700
c == 904837
tipping_point == 200000
colapso == 50000
ano_inicial_padrao == 2024
ano_final_padrao == 2250
n_anos_padrao == ano_final_padrao - ano_inicial_padrao + 1
x0_padrao == 850000
y0_padrao == 150000

\* np.sin(0.2*np.pi*phase) for phase = 0..9 (index phase+1).  The float
\* value at phase 5 is 1.2e-16, which is 0 at six digits.
SinTab == <<0, 587785, 951057, 951057, 587785, 0,
            -587785, -951057, -951057, -587785>>

\* ---------------------------------------------------------- step function
\* Variant of the climate factor without the max(0, .) (line 72).
FatorClimaSemMax(ano_ocorrente) ==
    LET phase == (ano_ocorrente - 2024) % 10
    IN  Scale + MulFix(300000, SinTab[phase + 1])

\* Line 71-72: the decadal climate amplification.
FatorClima(ano_ocorrente) ==
    LET phase == (ano_ocorrente - 2024) % 10
    IN  Scale + MulFix(300000, Max2(0, SinTab[phase + 1]))

\* Lines 74-77: saturation of pressure.
Sigma(y) == IF y > 0 THEN DivFix(y, Scale + y) ELSE 0

\* Variant of the step function without the floor at 0 (lines 84 and 90).
sistema_step_sem_piso(x, y, a, b1, c1, tipping_limite_, ano_ocorrente) ==
    LET fator_clima == FatorClima(ano_ocorrente)
        sigma == Sigma(y)
    IN  IF x <= tipping_limite_
        THEN IF tipping_limite_ = 0
             THEN [err |-> TRUE, pos |-> TRUE, x |-> 0, y |-> 0, desmat |-> 0]
             ELSE LET fator_transicao ==
                          Min2(Scale, DivFix(tipping_limite_ - x, tipping_limite_))
                      desmat == MulFix(fator_clima,
                                       MulFix(a, sigma) + MulFix(50000, fator_transicao))
                  IN  [err |-> FALSE, pos |-> TRUE,
                       x |-> x - desmat,
                       y |-> MulFix(b1, desmat) + MulFix(c1, y) + 10000,
                       desmat |-> desmat]
        ELSE LET desmat == MulFix(MulFix(fator_clima, a), sigma)
             IN  [err |-> FALSE, pos |-> FALSE,
                  x |-> x - desmat,
                  y |-> MulFix(b1, desmat) + MulFix(c1, y),
                  desmat |-> desmat]

\* sistema_step_tipping.  Returns the three numbers and, as an observation
\* of the control flow, which branch produced them; err is set where the
\* compiled function raises ZeroDivisionError (0.0/0.0 at tipping_limite = 0).
sistema_step_tipping(x, y, a, b1, c1, tipping_limite_, ano_ocorrente) ==
    LET fator_clima == FatorClima(ano_ocorrente)
        sigma == Sigma(y)
    IN  IF x <= tipping_limite_
        THEN IF tipping_limite_ = 0
             THEN [err |-> TRUE, pos |-> TRUE, x |-> 0, y |-> 0, desmat |-> 0]
             ELSE LET fator_transicao ==
                          Min2(Scale, DivFix(tipping_limite_ - x, tipping_limite_))
                      desmat == MulFix(fator_clima,
                                       MulFix(a, sigma) + MulFix(50000, fator_transicao))
                  IN  [err |-> FALSE, pos |-> TRUE,
                       x |-> Max2(0, x - desmat),
                       y |-> MulFix(b1, desmat) + MulFix(c1, y) + 10000,
                       desmat |-> desmat]
        ELSE LET desmat == MulFix(MulFix(fator_clima, a), sigma)
             IN  [err |-> FALSE, pos |-> FALSE,
                  x |-> Max2(0, x - desmat),
                  y |-> MulFix(b1, desmat) + MulFix(c1, y),
                  desmat |-> desmat]

\* ------------------------------------------------ pessimistic forcing
\* Variant of the raw rate whose ramp runs one year too long.
TaxaPessimistaRampaLonga(k) ==
    IF k <= 10 THEN 1100 + k * 200
    ELSE IF k < 16 THEN 3000
    ELSE IF k = 16 THEN 5000
    ELSE 0

\* cenario_pessimista, lines 149-157: the raw deforestation rate of year
\* index k >= 1 (0.0011 + k*0.0002, 0.0030, 0.0050, 0).
TaxaPessimista(k) ==
    IF k < 10 THEN 1100 + k * 200
    ELSE IF k < 16 THEN 3000
    ELSE IF k = 16 THEN 5000
    ELSE 0

\* a0*(1 + D/D_ref), elementwise (line 158).
Reescalar(D) == [k \in 1..Len(D) |-> MulFix(a0, Scale + DivFix(D[k], D_ref))]

\* ------------------------------------------------------------- analysis
None == [is |-> "None"]
Ano(v) == [is |-> "ano", val |-> v]
NA == [is |-> "N/A"]
Inteiro(v) == [is |-> "int", val |-> v]
Pendente == [is |-> "pendente"]

\* ano_limite: the year at the first index whose value is <= limite.
RECURSIVE AnoLimiteDe(_, _, _, _)
AnoLimiteDe(xs, anos, limite, k) ==
    IF k > Len(xs) THEN None
    ELSE IF xs[k] <= limite THEN Ano(anos[k])
    ELSE AnoLimiteDe(xs, anos, limite, k + 1)

ano_limite(xs, anos, limite) == AnoLimiteDe(xs, anos, limite, 1)

\* Variant of the gap with the operands of the subtraction swapped.
calcular_tempo_invertido(ano_tipping, ano_colapso) ==
    IF ano_tipping = None \/ ano_colapso = None THEN NA
    ELSE Inteiro(ano_tipping.val - ano_colapso.val)

calcular_tempo_inflex(ano_tipping, ano_colapso) ==
    IF ano_tipping = None \/ ano_colapso = None THEN NA
    ELSE Inteiro(ano_colapso.val - ano_tipping.val)

\* ----------------------------------------------------------------- state
VARIABLES
    a_trajectory,     \* forcing sequence handed to simular_cenario
    x0, y0,           \* initial state
    tipping_limite,   \* tipping threshold
    colapso_limite,   \* collapse threshold used by the analysis
    ano_inicial, ano_final,
    pc,               \* "build" | "rescale" | "call" | "loop" | "done" | "tip"
                      \* | "col" | "fim" | "erro"
    D,                \* cenario_pessimista's raw array
    i,                \* loop index of the running loop (Python index)
    anos_sim, x_series, y_series, desmat_series, regime,
    tipping_ativado,
    ramo,             \* per year index: branch of the step that produced it
    erro,             \* exception that ended the run, "" if none
    tip, col, tempo   \* results of the analysis

vars == <<a_trajectory, x0, y0, tipping_limite, colapso_limite, ano_inicial,
          ano_final, pc, D, i, anos_sim, x_series, y_series, desmat_series,
          regime, tipping_ativado, ramo, erro, tip, col, tempo>>

entradas == <<a_trajectory, x0, y0, tipping_limite, colapso_limite,
              ano_inicial, ano_final>>
series == <<anos_sim, x_series, y_series, desmat_series, regime,
            tipping_ativado, ramo>>
analise == <<tip, col, tempo>>

n_anos == ano_final - ano_inicial + 1

Zeros(n) == [k \in 1..n |-> 0]

\* ------------------------------------------------------- bounded inputs
MaxAnos == 4

X0Vals == {0, 100000, 250000, 850000, 1500000}
Y0Vals == {0, 150000, 2000000}
AVals == {-1000000, a0, 2000000}
LimiteVals == {0, tipping_point}
AnoInicialVals == {2021, ano_inicial_padrao}

SeqsAte(S, n) == UNION {[1..m -> S] : m \in 0..n}

\* ------------------------------------------------------------ simulator
\* simular_cenario is entered with its arguments bound.  The horizon has at
\* least one year (an empty horizon writes x_series[0] out of bounds).
Init ==
    /\ ano_inicial \in AnoInicialVals
    /\ ano_final \in ano_inicial..(ano_inicial + MaxAnos - 1)
    /\ a_trajectory \in SeqsAte(AVals, MaxAnos)
    /\ x0 \in X0Vals
    /\ y0 \in Y0Vals
    /\ tipping_limite \in LimiteVals
    /\ colapso_limite = colapso
    /\ pc = "call"
    /\ D = <<>>
    /\ i = 0
    /\ anos_sim = <<>>
    /\ x_series = <<>>
    /\ y_series = <<>>
    /\ desmat_series = <<>>
    /\ regime = <<>>
    /\ tipping_ativado = FALSE
    /\ ramo = <<>>
    /\ erro = ""
    /\ tip = Pendente
    /\ col = Pendente
    /\ tempo = Pendente

\* Lines 97-106: the arrays are allocated, year 0 is seeded.
Inicializar ==
    /\ pc = "call"
    /\ anos_sim' = [k \in 1..n_anos |-> ano_inicial + k - 1]
    /\ x_series' = [Zeros(n_anos) EXCEPT ![1] = x0]
    /\ y_series' = [Zeros(n_anos) EXCEPT ![1] = y0]
    /\ desmat_series' = Zeros(n_anos)
    /\ regime' = Zeros(n_anos)
    /\ ramo' = [k \in 1..n_anos |-> "nenhum"]
    /\ tipping_ativado' = FALSE
    /\ i' = 1
    /\ pc' = "loop"
    /\ UNCHANGED <<entradas, D, erro, analise>>

\* Variant of the read that takes the coefficient of the year being computed.
LeituraDoAno(k) ==
    IF k + 2 <= Len(a_trajectory) THEN {a_trajectory[k + 2]} ELSE AVals

\* a_trajectory[k] as the compiled loop reads it (no bounds check): past
\* the end of the array it is whatever lies in memory.
Leitura(k) == IF k + 1 <= Len(a_trajectory) THEN {a_trajectory[k + 1]} ELSE AVals

\* Variant of the classification that looks at the year's cover alone.
ClassificarSemTrava(ativado, x) ==
    IF x <= tipping_limite
    THEN [ativado |-> TRUE, regime |-> IF ativado THEN 2 ELSE 1]
    ELSE [ativado |-> FALSE, regime |-> 0]

\* Variant of the classification that tags the crossing year Collapse.
ClassificarSemAtivacao(ativado, x) ==
    IF ativado \/ x <= tipping_limite THEN [ativado |-> TRUE, regime |-> 2]
    ELSE [ativado |-> FALSE, regime |-> 0]

\* Lines 114-120, the regime of year index k given the latch before it.
Classificar(ativado, x) ==
    IF ~ativado /\ x <= tipping_limite THEN [ativado |-> TRUE, regime |-> 1]
    ELSE IF ativado THEN [ativado |-> TRUE, regime |-> 2]
    ELSE [ativado |-> FALSE, regime |-> 0]

\* Lines 107-120: one iteration of the loop, for Python index i.
Iterar ==
    /\ pc = "loop"
    /\ i < n_anos
    /\ \E a \in Leitura(i - 1) :
         LET r == sistema_step_tipping(x_series[i], y_series[i], a, b, c,
                                       tipping_limite, anos_sim[i + 1])
             k == Classificar(tipping_ativado, r.x)
         IN  IF r.err
             THEN /\ pc' = "erro"
                  /\ erro' = "ZeroDivisionError"
                  /\ UNCHANGED <<i, series>>
             ELSE /\ x_series' = [x_series EXCEPT ![i + 1] = r.x]
                  /\ y_series' = [y_series EXCEPT ![i + 1] = r.y]
                  /\ desmat_series' = [desmat_series EXCEPT ![i + 1] = r.desmat]
                  /\ ramo' = [ramo EXCEPT ![i + 1] = IF r.pos THEN "pos" ELSE "estavel"]
                  /\ tipping_ativado' = k.ativado
                  /\ regime' = [regime EXCEPT ![i + 1] = k.regime]
                  /\ i' = i + 1
                  /\ UNCHANGED <<pc, erro, anos_sim>>
    /\ UNCHANGED <<entradas, D, analise>>

\* Line 121: the five series are returned.
Retornar ==
    /\ pc = "loop"
    /\ i >= n_anos
    /\ pc' = "done"
    /\ UNCHANGED <<entradas, D, i, series, erro, analise>>

\* Lines 187-189: first year at or below the tipping threshold.
AnalisarTipping ==
    /\ pc = "done"
    /\ tip' = ano_limite(x_series, anos_sim, tipping_limite)
    /\ pc' = "tip"
    /\ UNCHANGED <<entradas, D, i, series, erro, col, tempo>>

\* Lines 190-192: first year at or below the collapse threshold.
AnalisarColapso ==
    /\ pc = "tip"
    /\ col' = ano_limite(x_series, anos_sim, colapso_limite)
    /\ pc' = "col"
    /\ UNCHANGED <<entradas, D, i, series, erro, tip, tempo>>

\* Lines 194-196: years between the two crossings.
CalcularTempo ==
    /\ pc = "col"
    /\ tempo' = calcular_tempo_inflex(tip, col)
    /\ pc' = "fim"
    /\ UNCHANGED <<entradas, D, i, series, erro, tip, col>>

Next ==
    \/ Inicializar
    \/ Iterar
    \/ Retornar
    \/ AnalisarTipping
    \/ AnalisarColapso
    \/ CalcularTempo

Spec == Init /\ [][Next]_vars

\* ------------------------------------------- the pessimistic scenario run
\* Module level, lines 59-65 and 162-196: cenario_pessimista builds the
\* forcing, simular_cenario runs it with the published coefficients and the
\* critical years are derived.  Lines 146-147: D is allocated, D[0] = 0.0011.
InitPess ==
    /\ ano_inicial = ano_inicial_padrao
    /\ ano_final = ano_final_padrao
    /\ a_trajectory = <<>>
    /\ x0 = x0_padrao
    /\ y0 = y0_padrao
    /\ tipping_limite = tipping_point
    /\ colapso_limite = colapso
    /\ pc = "build"
    /\ D = [Zeros(n_anos_padrao) EXCEPT ![1] = 1100]
    /\ i = 1
    /\ anos_sim = <<>>
    /\ x_series = <<>>
    /\ y_series = <<>>
    /\ desmat_series = <<>>
    /\ regime = <<>>
    /\ tipping_ativado = FALSE
    /\ ramo = <<>>
    /\ erro = ""
    /\ tip = Pendente
    /\ col = Pendente
    /\ tempo = Pendente

\* Lines 149-157: one iteration of cenario_pessimista's loop.
PessimistaPasso ==
    /\ pc = "build"
    /\ i < n_anos_padrao
    /\ D' = [D EXCEPT ![i + 1] = TaxaPessimista(i)]
    /\ i' = i + 1
    /\ UNCHANGED <<entradas, pc, series, erro, analise>>

\* Line 158 and line 162: the rescaled array becomes a_pessimista.
PessimistaRetorno ==
    /\ pc = "build"
    /\ i >= n_anos_padrao
    /\ a_trajectory' = Reescalar(D)
    /\ pc' = "call"
    /\ UNCHANGED <<x0, y0, tipping_limite, colapso_limite, ano_inicial,
                   ano_final, D, i, series, erro, analise>>

NextPess ==
    \/ PessimistaPasso
    \/ PessimistaRetorno
    \/ Inicializar
    \/ Iterar
    \/ Retornar
    \/ AnalisarTipping
    \/ AnalisarColapso
    \/ CalcularTempo

SpecPess == InitPess /\ [][NextPess]_vars

\* ------------------------------------------------- analysis on any series
MaxLen == 3

SerieVals == {0, 100000, 300000, 500000}
LimiarVals == {50000, 200000, 400000}
AnoVals == ano_inicial_padrao..(ano_inicial_padrao + MaxLen + 2)

Crescentes(m) ==
    {f \in [1..m -> AnoVals] : \A j \in 1..m : \A k \in 1..m : j < k => f[j] < f[k]}

\* ano_limite and calcular_tempo_inflex applied to an arbitrary series with
\* an increasing year sequence of the same length and two thresholds,
\* the collapse threshold not above the tipping threshold.
InitAnalise ==
    /\ \E m \in 0..MaxLen :
         /\ x_series \in [1..m -> SerieVals]
         /\ anos_sim \in Crescentes(m)
         /\ y_series = Zeros(m)
         /\ desmat_series = Zeros(m)
         /\ regime = Zeros(m)
         /\ ramo = [k \in 1..m |-> "nenhum"]
         /\ i = m
    /\ tipping_limite \in LimiarVals
    /\ colapso_limite \in {l \in LimiarVals : l <= tipping_limite}
    /\ ano_inicial = ano_inicial_padrao
    /\ ano_final = ano_inicial_padrao
    /\ a_trajectory = <<>>
    /\ x0 = 0
    /\ y0 = 0
    /\ pc = "done"
    /\ D = <<>>
    /\ tipping_ativado = FALSE
    /\ erro = ""
    /\ tip = Pendente
    /\ col = Pendente
    /\ tempo = Pendente

NextAnalise ==
    \/ AnalisarTipping
    \/ AnalisarColapso
    \/ CalcularTempo

SpecAnalise == InitAnalise /\ [][NextAnalise]_vars

\* ================================================================ claims
\* Year indices (1-based) whose entries the loop has written so far.
Preenchidos == IF pc \in {"build", "call"} THEN {} ELSE 1..Min2(i, Len(x_series))

Retornado == pc \in {"done", "tip", "col", "fim"}

\* The inputs the specification calls valid: one forcing coefficient per
\* year of the horizon, all non-negative, forest cover in [0,1], pressure
\* non-negative, tipping threshold in [0,1].
ValidInput ==
    /\ Len(a_trajectory) = n_anos
    /\ \A k \in 1..Len(a_trajectory) : a_trajectory[k] >= 0
    /\ x0 >= 0 /\ x0 <= Scale
    /\ y0 >= 0
    /\ tipping_limite >= 0 /\ tipping_limite <= Scale

\* C1: once a year of the run is tagged other than Stable, every later
\* year of the run is tagged other than Stable; the latch is set exactly
\* when some year is so tagged, and at most one year is TippingActivated,
\* whatever the forcing does to forest cover afterwards.
C1_LatchMonotonic ==
    /\ \A j \in Preenchidos : \A k \in Preenchidos :
         (j < k /\ regime[j] # 0) => regime[k] = 2
    /\ tipping_ativado <=> (\E j \in Preenchidos : regime[j] # 0)
    /\ Cardinality({j \in Preenchidos : regime[j] = 1}) <= 1

\* A run in which cover rose back above the threshold after the latch was
\* set, and the year is still tagged Collapse.
C1_Witness ==
    \E j \in Preenchidos : \E k \in Preenchidos :
        /\ j < k
        /\ regime[j] = 1
        /\ regime[k] = 2
        /\ x_series[k] > tipping_limite

\* C2 (as stated): in a returned run on valid input, the year tagged
\* TippingActivated is the year ano_limite returns for the tipping
\* threshold, earlier years are Stable, later years are Collapse, and no
\* year is tagged when ano_limite returns None.
C2_TippingYearIsFirstCrossing ==
    (Retornado /\ ValidInput) =>
        LET f == ano_limite(x_series, anos_sim, tipping_limite)
        IN  \A k \in 1..n_anos :
              regime[k] = IF f = None THEN 0
                          ELSE IF anos_sim[k] < f.val THEN 0
                          ELSE IF anos_sim[k] = f.val THEN 1
                          ELSE 2

\* C3: on valid input every forest-cover entry written so far is in [0,1],
\* no entry exceeds the one before it, and every entry after a 0 is 0.
C3_CoverNonIncreasing ==
    ValidInput =>
        \A j \in Preenchidos :
            /\ x_series[j] >= 0
            /\ x_series[j] <= Scale
            /\ \A k \in Preenchidos :
                 j < k => /\ x_series[k] <= x_series[j]
                          /\ (x_series[j] = 0 => x_series[k] = 0)

\* Valid input; cover fell strictly, was floored at 0 and stayed 0 for a
\* further year.
C3_Witness ==
    /\ ValidInput
    /\ \E j \in Preenchidos :
         /\ j + 2 \in Preenchidos
         /\ x_series[j] > 0
         /\ x_series[j + 1] = 0
         /\ desmat_series[j + 1] > x_series[j]
         /\ x_series[j + 2] = 0
         /\ desmat_series[j + 2] > 0

\* C4 (as stated): with a forcing sequence whose length differs from the
\* horizon, or an initial forest cover outside [0,1], the run ends in
\* InvalidInput and returns no series.
C4_InvalidInputRejected ==
    (Len(a_trajectory) # n_anos \/ x0 < 0 \/ x0 > Scale) =>
        ~Retornado

\* C5 (as stated): on valid input, tipping threshold 0 included, no step
\* raises an error, so the run is never ended by an exception.
C5_StepTotal == ValidInput => (pc # "erro" /\ erro = "")

\* C6: with the collapse threshold not above the tipping threshold, a
\* collapse year comes with a tipping year that is not later, and the gap
\* is "N/A" exactly when a crossing is absent and otherwise the
\* non-negative integer collapse year minus tipping year.
C6_GapWellFormed ==
    /\ pc \in {"col", "fim"} =>
         (col # None => (tip # None /\ tip.val <= col.val))
    /\ pc = "fim" =>
         /\ (tempo = NA) <=> (tip = None \/ col = None)
         /\ tempo # NA => /\ tempo.is = "int"
                          /\ tempo.val >= 0
                          /\ tempo.val = col.val - tip.val

\* Both crossings present in different years on a series that is not
\* monotone, and the gap computed.
C6_Witness ==
    /\ pc = "fim"
    /\ tip # None /\ col # None
    /\ tempo.is = "int" /\ tempo.val > 1
    /\ \E j \in 1..Len(x_series) : \E k \in 1..Len(x_series) :
         j < k /\ x_series[j] < x_series[k]

\* C7: the pessimistic scenario with the published coefficients reaches
\* forest cover <= 0.20 first in 2050 and forest cover <= 0.05 first in
\* 2058, eight years (no more than ten) after the tipping year.
C7_PessimisticYears ==
    pc = "fim" =>
        /\ tip = Ano(2050)
        /\ col = Ano(2058)
        /\ tempo.is = "int" /\ tempo.val <= 10

C7_Witness ==
    /\ pc = "fim"
    /\ Len(x_series) = n_anos_padrao
    /\ tempo = Inteiro(8)

\* C8: the pessimistic forcing has one entry per year of the horizon, each
\* the rescaled raw rate; the raw rate rises by a constant positive amount
\* over indices 0..9, is constant over 10..15 above the whole ramp, has its
\* unique maximum at index 16 and is 0 afterwards, where the coefficient
\* equals the base rate.
C8_PessimisticShape ==
    pc # "build" =>
        /\ Len(a_trajectory) = n_anos_padrao
        /\ Len(D) = n_anos_padrao
        /\ \A k \in 1..n_anos_padrao :
             a_trajectory[k] = MulFix(a0, Scale + DivFix(D[k], D_ref))
        /\ \A k \in 1..9 : D[k + 1] - D[k] = D[2] - D[1] /\ D[k + 1] > D[k]
        /\ \A k \in 11..16 : D[k] = D[11] /\ D[k] > D[10]
        /\ \A k \in 1..n_anos_padrao : k # 17 => D[k] < D[17]
        /\ \A k \in 18..n_anos_padrao : D[k] = 0 /\ a_trajectory[k] = a0

C8_Witness ==
    /\ pc = "call"
    /\ Len(a_trajectory) = n_anos_padrao
    /\ a_trajectory[10] < a_trajectory[11]
    /\ a_trajectory[17] > a_trajectory[16]
    /\ a_trajectory[n_anos_padrao] = a0

\* C9: year index 0 holds the initial state with deforestation 0 and regime
\* Stable, and every later year written so far is the step function applied
\* to the stored state of the year before, the forcing entry of the year
\* before and the calendar year start + index; no entry depends on the
\* last forcing entry.
C9_StepFromPrevious ==
    (pc \notin {"build", "call"} /\ Len(a_trajectory) = n_anos) =>
        /\ x_series[1] = x0 /\ y_series[1] = y0
        /\ desmat_series[1] = 0 /\ regime[1] = 0
        /\ \A k \in Preenchidos \ {1} :
             LET r == sistema_step_tipping(x_series[k - 1], y_series[k - 1],
                                           a_trajectory[k - 1], b, c,
                                           tipping_limite, ano_inicial + (k - 1))
             IN  /\ ~r.err
                 /\ x_series[k] = r.x
                 /\ y_series[k] = r.y
                 /\ desmat_series[k] = r.desmat

\* A returned run of at least three years whose last forcing entry differs
\* from the one before it, with deforestation in the last year.
C9_Witness ==
    /\ Retornado
    /\ n_anos >= 3
    /\ Len(a_trajectory) = n_anos
    /\ a_trajectory[n_anos] # a_trajectory[n_anos - 1]
    /\ desmat_series[n_anos] > 0
    /\ x_series[n_anos] > 0

\* C10: on valid input with initial cover above the tipping threshold, a
\* year is produced by the post-tipping branch of the step exactly when it
\* is tagged Collapse; Stable and TippingActivated years come from the
\* stable-regime branch.
C10_BranchMatchesRegime ==
    (ValidInput /\ x0 > tipping_limite) =>
        \A k \in Preenchidos \ {1} :
            /\ (ramo[k] = "pos") <=> (regime[k] = 2)
            /\ regime[k] \in {0, 1} => ramo[k] = "estavel"

C10_Witness ==
    /\ ValidInput /\ x0 > tipping_limite
    /\ \E k \in Preenchidos :
         /\ k + 1 \in Preenchidos
         /\ regime[k] = 1 /\ ramo[k] = "estavel"
         /\ regime[k + 1] = 2 /\ ramo[k + 1] = "pos"

====
